---- MODULE Spec2Model ----
(***************************************************************************)
(* Model of src/app.py, a Streamlit page.  Streamlit re-executes the whole *)
(* script top to bottom on every user interaction of a session; widget     *)
(* values and st.session_state survive between runs, every other name is   *)
(* rebuilt.  One action of this model is one interaction: the widget       *)
(* change followed by the complete script run it causes.  A run that ends  *)
(* in st.experimental_rerun() leaves the session with a rerun pending, and *)
(* the only thing that can happen next is that run.                        *)
(*                                                                         *)
(* Strings are TLA+ strings, f-strings are \o.  An optional object is a    *)
(* sequence of length 0 (None / never assigned) or 1.  The temperature is  *)
(* kept in tenths (the slider's step is 0.1).                              *)
(***************************************************************************)
EXTENDS Naturals, Sequences, FiniteSets, TLC

VARIABLES
    groq_api_key,      \* st.sidebar.text_input value, at first the
                       \* environment's GROQ_API_KEY              (lines 45-51)
    selected_model,    \* st.sidebar.selectbox value                    (line 60)
    temperature,       \* st.slider value, in tenths                    (line 69)
    show_reasoning,    \* st.checkbox value                             (line 71)
    text_area,         \* st.text_area value                            (line 199)
    session_state,     \* st.session_state: a map from keys to values   (line 178)
    llm,               \* the ChatGroq client of the last run           (line 93)
    tools,             \* the list setup_tools() returned in the last run
    assistant_agent,   \* the executor initialize_math_agent returned
    st_cb,             \* the StreamlitCallbackHandler of the last run and
                       \* the events it received
    agent_run,         \* the call assistant_agent.run of the last run
    rendered,          \* the UI elements the last run put on the page
    halted,            \* how the last run ended: "end" of the script, "stop"
                       \* (st.stop), "rerun" (a rerun is pending), "exception"
    raised,            \* the call of the last run that raised, "none" if none
    last               \* the interaction that caused the last run, and the
                       \* length of the conversation when it began

vars == << groq_api_key, selected_model, temperature,
           show_reasoning, text_area, session_state, llm, tools,
           assistant_agent, st_cb, agent_run, rendered, halted, raised, last >>

-----------------------------------------------------------------------------
(* Bounds of the model *)

\* the longest conversation the model explores
MaxMessages == 4

\* the most intermediate events one orchestrator run emits
MaxEvents == 1

-----------------------------------------------------------------------------
(* Program constants *)

\* keys of model_options, in order (lines 54-59)
model_options == << "gemma2-9b-it", "llama3-8b-8192", "llama3-70b-8192",
                    "mixtral-8x7b-32768" >>

\* st.slider(min_value=0.0, max_value=1.0, value=0.2, step=0.1), in tenths
TemperatureMin == 0
TemperatureMax == 10
TemperatureDefault == 2

\* the seeded assistant greeting (line 180)
Greeting ==
    [role |-> "assistant",
     content |-> "Hi, I'm your Math Problem Solver! Ask me any math question or problem, and I'll solve it step-by-step."]

\* example_problems (lines 188-193)
example_problems ==
    << "Solve for x: 2x + 5 = 15",
       "Find the area of a circle with radius 4 cm",
       "If a train travels at 60 mph and takes 3 hours to reach its destination, how far did it travel?",
       "I have 5 bananas and 7 grapes. I eat 2 bananas and give away 3 grapes. Then I buy a dozen apples and 2 packs of blueberries. Each pack contains 25 berries. How many total pieces of fruit do I have at the end?" >>

-----------------------------------------------------------------------------
(* Inputs the model draws from *)

\* API keys a user or the environment may supply
ApiKeys == {"", "gsk_1"}

\* temperatures the user moves the slider to
Temperatures == {t \in TemperatureMin..TemperatureMax : t \in {TemperatureDefault, 7}}

\* models the user selects
Models == {model_options[i] : i \in {1, 4}}

\* texts typed into the text area
Questions == {"", "2+2"}

\* final answers of the orchestrator
Responses == {"4"}

\* str(e) of the exceptions the orchestrator run raises
ErrorTexts == {"", "rate limit"}

\* intermediate events of the ReAct loop
EventKinds == {"thought", "action"}

RECURSIVE SeqsUpTo(_, _)
SeqsUpTo(S, n) ==
    IF n = 0 THEN {<< >>}
    ELSE LET shorter == SeqsUpTo(S, n - 1)
         IN  shorter \cup {Append(s, x) : s \in {t \in shorter : Len(t) = n - 1}, x \in S}

\* what the world outside the script does during one script run
Envs ==
    [ llmOk    : BOOLEAN,                  \* ChatGroq(...) returns / raises
      toolsOk  : BOOLEAN,                  \* setup_tools() returns / raises
      agentOk  : BOOLEAN,                  \* initialize_agent(...) returns / raises
      events   : SeqsUpTo(EventKinds, MaxEvents),
      runOk    : BOOLEAN,                  \* assistant_agent.run returns / raises
      response : Responses,
      error    : ErrorTexts ]


\* a run that the Solve button did not cause never reaches line 216 and reads
\* only env.llmOk; the components it does not read are held at one value
PlainEnvs ==
    {e \in Envs : /\ e.toolsOk /\ e.agentOk /\ e.runOk /\ e.events = << >>
                  /\ e.response = "4" /\ e.error = ""}

-----------------------------------------------------------------------------
(* Helpers *)

None == << >>
Some(x) == << x >>

IsPrefix(s, t) == Len(s) <= Len(t) /\ SubSeq(t, 1, Len(s)) = s

\* Python's  t in s  for strings
Contains(s, t) ==
    \E i \in 1..(Len(s) + 1) :
        i + Len(t) - 1 <= Len(s) /\ SubSeq(s, i, i + Len(t) - 1) = t

NoSessionState == [k \in {} |-> << >>]

\* st.session_state.messages, << >> when the key is absent
Messages(ss) == IF "messages" \in DOMAIN ss THEN ss["messages"] ELSE << >>

UserRecords(msgs) == SelectSeq(msgs, LAMBDA m : m.role = "user")
AssistantRecords(msgs) == SelectSeq(msgs, LAMBDA m : m.role = "assistant")

-----------------------------------------------------------------------------
(* The script, top to bottom *)

\* the names a run leaves unbound when it stops at a given point
Halt(ss, page, how) ==
    [ session_state |-> ss, llm |-> None, tools |-> None,
      assistant_agent |-> None, st_cb |-> None, agent_run |-> None,
      rendered |-> page, halted |-> how, raised |-> "none" ]

\* mutant of HasApiKey: "if groq_api_key is None", which a text input never is
HasApiKeyNotNone(key) == TRUE

\* line 75: if not groq_api_key
HasApiKey(key) == key # ""

\* lines 93-98
ChatGroq(cfg) ==
    [ model |-> cfg.selected_model, groq_api_key |-> cfg.groq_api_key,
      temperature |-> cfg.temperature, streaming |-> TRUE ]

\* mutant of setup_tools: the calculator listed before the web search
setup_tools_reordered(l) ==
    << [name |-> "WikipediaQueryRun",   top_k_results |-> 2, llm |-> None],
       [name |-> "ArxivQueryRun",       top_k_results |-> 1, llm |-> None],
       [name |-> "Calculator",          top_k_results |-> 0, llm |-> Some(l)],
       [name |-> "DuckDuckGoSearchRun", top_k_results |-> 0, llm |-> None],
       [name |-> "MathReasoning",       top_k_results |-> 0, llm |-> Some(l)] >>

\* lines 104-150; llm is the global the two chains close over
setup_tools(l) ==
    << [name |-> "WikipediaQueryRun",   top_k_results |-> 2, llm |-> None],
       [name |-> "ArxivQueryRun",       top_k_results |-> 1, llm |-> None],
       [name |-> "DuckDuckGoSearchRun", top_k_results |-> 0, llm |-> None],
       [name |-> "Calculator",          top_k_results |-> 0, llm |-> Some(l)],
       [name |-> "MathReasoning",       top_k_results |-> 0, llm |-> Some(l)] >>

\* lines 153-175
initialize_math_agent(ts, l, verbose) ==
    [ tools |-> ts, llm |-> l, agent |-> "ZERO_SHOT_REACT_DESCRIPTION",
      verbose |-> verbose, handle_parsing_errors |-> TRUE,
      early_stopping_method |-> "generate" ]

\* mutant of SeedMessages: the greeting assigned on every run, without the
\* test of line 178
SeedMessagesAlways(ss) == ("messages" :> << Greeting >>)

\* lines 178-181
SeedMessages(ss) ==
    IF "messages" \notin DOMAIN ss
    THEN ("messages" :> << Greeting >>) @@ ss
    ELSE ss

\* st.session_state.messages.append(rec)  (lines 212, 218, 233, 237)
AppendMessage(ss, rec) ==
    [ss EXCEPT !["messages"] = Append(@, rec)]

\* line 235: f"Error generating response: {str(e)}"
ErrorMsg(e) == "Error generating response: " \o e

\* line 227: the handler is built on every solve; the flag only sets
\* expand_new_thoughts.  Line 229 hands it to the run, which calls it for
\* every intermediate event it emits.
StreamlitCallbackHandler(flag, events) ==
    [ expand_new_thoughts |-> flag, received |-> events ]

\* mutant of RunAgent: the assistant record appended in a finally clause as
\* well as in the except clause
RunAgentFinally(r, question, flag, env) ==
    LET cb  == StreamlitCallbackHandler(flag, env.events)
        run == [ input |-> question, events |-> env.events, ok |-> env.runOk,
                 text |-> IF env.runOk THEN env.response ELSE env.error ]
        r1  == [ r EXCEPT !.st_cb = Some(cb), !.agent_run = Some(run) ]
    IN  IF env.runOk
        THEN [ r1 EXCEPT
                 !.rendered = @ \cup {"answer"},
                 !.session_state =
                     AppendMessage(@, [role |-> "assistant", content |-> env.response]) ]
        ELSE [ r1 EXCEPT
                 !.rendered = @ \cup {"error_response"},
                 !.raised = "assistant_agent.run",
                 !.session_state =
                     AppendMessage(
                         AppendMessage(@, [role |-> "assistant", content |-> ErrorMsg(env.error)]),
                         [role |-> "assistant", content |-> ""]) ]

\* lines 226-237: the assistant chat message, the run and its try/except.
\* r is the result so far.
RunAgent(r, question, flag, env) ==
    LET cb  == StreamlitCallbackHandler(flag, env.events)
        run == [ input |-> question, events |-> env.events, ok |-> env.runOk,
                 text |-> IF env.runOk THEN env.response ELSE env.error ]
    IN  IF env.runOk
        THEN [ r EXCEPT
                 !.st_cb = Some(cb), !.agent_run = Some(run),
                 !.rendered = @ \cup {"answer"},
                 !.session_state =
                     AppendMessage(@, [role |-> "assistant", content |-> env.response]) ]
        ELSE [ r EXCEPT
                 !.st_cb = Some(cb), !.agent_run = Some(run),
                 !.rendered = @ \cup {"error_response"},
                 !.raised = "assistant_agent.run",
                 !.session_state =
                     AppendMessage(@, [role |-> "assistant", content |-> ErrorMsg(env.error)]) ]

\* lines 216-237: if solve_button and question.  An exception of setup_tools()
\* or initialize_math_agent() is raised outside the try of line 228 and ends
\* the run.
SolveBlock(r, question, solve_button, flag, env) ==
    IF solve_button /\ question # ""
    THEN LET r1 == [ r EXCEPT
                       !.session_state =
                           AppendMessage(@, [role |-> "user", content |-> question]),
                       !.rendered = @ \cup {"user_message"} ]
         IN  IF ~env.toolsOk
             THEN [ r1 EXCEPT !.halted = "exception", !.raised = "setup_tools" ]
             ELSE LET r2 == [ r1 EXCEPT !.tools = setup_tools(r.llm[1]) ]
                  IN  IF ~env.agentOk
                      THEN [ r2 EXCEPT !.halted = "exception",
                                       !.raised = "initialize_math_agent" ]
                      ELSE LET r3 == [ r2 EXCEPT !.assistant_agent =
                                         Some(initialize_math_agent(r2.tools, r.llm[1], flag)) ]
                               r4 == RunAgent(r3, question, flag, env)
                           IN  [ r4 EXCEPT !.rendered = @ \cup {"footer"} ]
    ELSE [ r EXCEPT !.rendered = @ \cup {"footer"} ]

\* mutant of experimental_rerun: a call that returns, so that the loop and the
\* script go on
experimental_rerun_returns == "none"

\* line 213: st.experimental_rerun() does not return: it raises Streamlit's
\* rerun exception, which ends the run and queues another one
experimental_rerun == "rerun"

\* lines 206-213: the example buttons.  clicked is the number of the button the
\* user pressed, 0 for none.  Yields the names the loop rebinds and how the
\* loop left the run ("none": it fell through).
ExampleLoop(ss, question, solve_button, clicked, env) ==
    IF clicked \in 1..Len(example_problems)
    THEN [ question |-> example_problems[clicked],
           solve_button |-> TRUE,
           session_state |->
               AppendMessage(ss, [role |-> "user", content |-> example_problems[clicked]]),
           left |-> experimental_rerun ]
    ELSE [ question |-> question, solve_button |-> solve_button,
           session_state |-> ss, left |-> "none" ]

\* lines 177-237: the page below the model client
Page(ss, cfg, solve_button, clicked, env) ==
    LET widgets == {"sidebar", "history", "text_area", "solve_button", "examples"}
        ex == ExampleLoop(SeedMessages(ss), cfg.text_area, solve_button, clicked, env)
        r0 == [ Halt(ex.session_state, widgets, "end") EXCEPT
                  !.llm = Some(ChatGroq(cfg)) ]
    IN  IF ex.left # "none"
        THEN [ r0 EXCEPT !.halted = ex.left, !.raised = "experimental_rerun" ]
        ELSE SolveBlock(r0, ex.question, ex.solve_button, cfg.show_reasoning, env)

\* mutant of LLMInitError: the except clause without its st.stop(), so that
\* the script goes on below line 101
LLMInitErrorContinues(ss, cfg, solve_button, clicked, env) ==
    [ Page(ss, cfg, FALSE, 0, env) EXCEPT
        !.llm = None, !.raised = "ChatGroq",
        !.rendered = @ \cup {"error_init"} ]

\* lines 99-101: except Exception: st.error(...); st.stop()
LLMInitError(ss, cfg, solve_button, clicked, env) ==
    [ Halt(ss, {"sidebar", "error_init"}, "stop") EXCEPT !.raised = "ChatGroq" ]

\* lines 74-89: no API key: st.info(...), the example problem, st.stop()
NoApiKey(ss, cfg, solve_button, clicked, env) ==
    Halt(ss, {"sidebar", "info_api_key"}, "stop")

\* one run of the script (lines 1-248)
Script(ss, cfg, solve_button, clicked, env) ==
    IF ~HasApiKey(cfg.groq_api_key)
    THEN NoApiKey(ss, cfg, solve_button, clicked, env)
    ELSE IF ~env.llmOk
         THEN LLMInitError(ss, cfg, solve_button, clicked, env)
         ELSE Page(ss, cfg, solve_button, clicked, env)

-----------------------------------------------------------------------------
(* State machine *)

Config(key, model, temp, flag, text) ==
    [ groq_api_key |-> key, selected_model |-> model, temperature |-> temp,
      show_reasoning |-> flag, text_area |-> text ]

\* the state a run leaves
Result(r, cfg, kind, clicked, base) ==
    /\ groq_api_key' = cfg.groq_api_key
    /\ selected_model' = cfg.selected_model
    /\ temperature' = cfg.temperature
    /\ show_reasoning' = cfg.show_reasoning
    /\ text_area' = cfg.text_area
    /\ session_state' = r.session_state
    /\ llm' = r.llm
    /\ tools' = r.tools
    /\ assistant_agent' = r.assistant_agent
    /\ st_cb' = r.st_cb
    /\ agent_run' = r.agent_run
    /\ rendered' = r.rendered
    /\ halted' = r.halted
    /\ raised' = r.raised
    /\ last' = [kind |-> kind, example |-> clicked, base |-> base]

\* a new session, before its first run
Init ==
    /\ groq_api_key \in ApiKeys
    /\ selected_model = model_options[1]
    /\ temperature = TemperatureDefault
    /\ show_reasoning = TRUE
    /\ text_area = ""
    /\ session_state = NoSessionState
    /\ llm = None
    /\ tools = None
    /\ assistant_agent = None
    /\ st_cb = None
    /\ agent_run = None
    /\ rendered = {}
    /\ halted = "none"
    /\ raised = "none"
    /\ last = [kind |-> "none", example |-> 0, base |-> 0]

Current == Config(groq_api_key, selected_model, temperature, show_reasoning, text_area)

msgs == Messages(session_state)

\* the session waits for the user: no run is pending
AtRest == halted # "rerun"

\* a run with no button pressed
Plain(cfg, kind, clicked, base) ==
    \E env \in PlainEnvs :
        Result(Script(session_state, cfg, FALSE, 0, env), cfg, kind, clicked, base)

\* the first run of the session
Load ==
    /\ last.kind = "none"
    /\ Plain(Current, "load", 0, Len(msgs))

\* the run st.experimental_rerun() asked for: same widget values, no button
Rerun ==
    /\ halted = "rerun"
    /\ Plain(Current, "rerun", last.example, last.base)

SetApiKey ==
    /\ AtRest /\ "sidebar" \in rendered
    /\ \E key \in ApiKeys \ {groq_api_key} :
           Plain([Current EXCEPT !.groq_api_key = key], "config", 0, Len(msgs))

SelectModel ==
    /\ AtRest /\ "sidebar" \in rendered
    /\ \E m \in Models \ {selected_model} :
           Plain([Current EXCEPT !.selected_model = m], "config", 0, Len(msgs))

SetTemperature ==
    /\ AtRest /\ "sidebar" \in rendered
    /\ \E t \in Temperatures \ {temperature} :
           Plain([Current EXCEPT !.temperature = t], "config", 0, Len(msgs))

ToggleReasoning ==
    /\ AtRest /\ "sidebar" \in rendered
    /\ Plain([Current EXCEPT !.show_reasoning = ~show_reasoning], "config", 0, Len(msgs))

TypeQuestion ==
    /\ AtRest /\ "text_area" \in rendered
    /\ \E q \in Questions \ {text_area} :
           Plain([Current EXCEPT !.text_area = q], "type", 0, Len(msgs))

\* the "Solve Problem" button (line 204)
ClickSolve ==
    /\ AtRest /\ "solve_button" \in rendered
    /\ Len(msgs) + 2 <= MaxMessages
    /\ \E env \in Envs :
           Result(Script(session_state, Current, TRUE, 0, env),
                  Current, "solve", 0, Len(msgs))

\* one of the "Example i" buttons (line 209)
ClickExample ==
    /\ AtRest /\ "examples" \in rendered
    /\ Len(msgs) + 1 <= MaxMessages
    /\ \E i \in 1..Len(example_problems), env \in PlainEnvs :
           Result(Script(session_state, Current, FALSE, i, env),
                  Current, "example", i, Len(msgs))

Next ==
    \/ Load
    \/ Rerun
    \/ SetApiKey
    \/ SelectModel
    \/ SetTemperature
    \/ ToggleReasoning
    \/ TypeQuestion
    \/ ClickSolve
    \/ ClickExample

Spec == Init /\ [][Next]_vars

-----------------------------------------------------------------------------
(* Properties *)

UserRecord(q) == [role |-> "user", content |-> q]

\* the records the runs of the last interaction appended
Appended == SubSeq(msgs, last.base + 1, Len(msgs))

ToolNames(ts) == [i \in 1..Len(ts) |-> ts[i].name]

\* C1: every run of the solve block that starts with a non-empty question and a
\* constructed model client grows the conversation by exactly two records, the
\* user record holding the question and then one assistant record, whatever
\* setup_tools(), initialize_math_agent() and assistant_agent.run do.
C1_SolveAppendsUserThenAssistant ==
    [][ (last'.kind = "solve" /\ text_area' # "" /\ llm' # None)
        => LET old == Messages(session_state)
               new == Messages(session_state')
           IN  /\ Len(new) = Len(old) + 2
               /\ SubSeq(new, 1, Len(old)) = old
               /\ new[Len(old) + 1] = UserRecord(text_area')
               /\ new[Len(old) + 2].role = "assistant" ]_vars

\* C2: once the interaction that began with the click on example button i is
\* over, the session is where typing example_problems[i] and pressing Solve
\* Problem would have left it: the orchestrator ran on that text, and the
\* conversation gained the user record and then one assistant record.
C2_ExampleSameAsTyped ==
    (last.kind \in {"example", "rerun"} /\ AtRest /\ llm # None)
    => LET T == example_problems[last.example]
           before == ("messages" :> SubSeq(msgs, 1, last.base))
       IN  \E env \in Envs :
              LET typed == Script(before, [Current EXCEPT !.text_area = T], TRUE, 0, env)
              IN  /\ env.llmOk /\ env.toolsOk /\ env.agentOk
                  /\ session_state = typed.session_state
                  /\ agent_run = typed.agent_run

\* C3: a run in which assistant_agent.run raises with message E appends the
\* user record and then exactly one assistant record, whose content is
\* "Error generating response: " followed by E, and nothing else.
C3_RunErrorRecordedOnce ==
    [][ (agent_run' # None /\ ~agent_run'[1].ok)
        => LET old == Messages(session_state)
               new == Messages(session_state')
               E == agent_run'[1].text
           IN  /\ raised' = "assistant_agent.run"
               /\ Len(new) = Len(old) + 2
               /\ SubSeq(new, 1, Len(old)) = old
               /\ new[Len(old) + 1] = UserRecord(agent_run'[1].input)
               /\ new[Len(old) + 2].role = "assistant"
               /\ new[Len(old) + 2].content = "Error generating response: " \o E
               /\ Contains(new[Len(old) + 2].content, E) ]_vars

C3_Witness ==
    /\ last.kind = "solve"
    /\ agent_run # None /\ ~agent_run[1].ok /\ agent_run[1].text = "rate limit"
    /\ Len(msgs) = last.base + 2

\* C4: a run that sees an empty API key stops before it constructs a model
\* client: it renders neither the text area nor the Solve button, builds no
\* tool list and no agent, runs nothing and leaves st.session_state as it was.
C4_NoKeyHalts ==
    [][ (groq_api_key' = "")
        => /\ halted' = "stop"
           /\ llm' = None /\ tools' = None /\ assistant_agent' = None
           /\ agent_run' = None /\ st_cb' = None
           /\ rendered' \cap {"text_area", "solve_button", "examples", "history"} = {}
           /\ session_state' = session_state ]_vars

C4_Witness ==
    /\ groq_api_key = "" /\ last.kind = "config"
    /\ Len(msgs) >= 3

\* C5: whenever setup_tools() returns, it returns exactly five tools in the
\* order Wikipedia, arXiv, DuckDuckGo, Calculator, MathReasoning, whatever the
\* model, the temperature and the reasoning flag are.
C5_FiveToolsInOrder ==
    tools # None
    => /\ Len(tools) = 5
       /\ ToolNames(tools) = << "WikipediaQueryRun", "ArxivQueryRun",
                                "DuckDuckGoSearchRun", "Calculator", "MathReasoning" >>

C5_Witness ==
    /\ tools # None
    /\ selected_model # model_options[1]
    /\ temperature # TemperatureDefault
    /\ ~show_reasoning

\* C6: the conversation is append-only: after every run the conversation of
\* before is a prefix of the conversation of after.
C6_AppendOnly ==
    [][ IsPrefix(Messages(session_state), Messages(session_state')) ]_vars

C6_Witness ==
    /\ last.kind = "config"
    /\ selected_model # model_options[1] /\ temperature # TemperatureDefault
    /\ Len(msgs) = MaxMessages
    /\ Len(AssistantRecords(msgs)) >= 2

\* C7: a session at rest never has a user record as the last record of its
\* conversation: every submitted question got its assistant record.
C7_UserRecordAnswered ==
    (AtRest /\ Len(msgs) > 0) => msgs[Len(msgs)].role # "user"

\* C8: a run in which the construction of the model client raises reports the
\* error and stops: no tool list, no agent, no solve, and st.session_state is
\* left as it was (not even seeded).
C8_ClientErrorHalts ==
    [][ (raised' = "ChatGroq")
        => /\ halted' = "stop"
           /\ "error_init" \in rendered'
           /\ llm' = None /\ tools' = None /\ assistant_agent' = None
           /\ agent_run' = None /\ st_cb' = None
           /\ rendered' \cap {"text_area", "solve_button", "examples", "history"} = {}
           /\ session_state' = session_state ]_vars

C8_Witness ==
    /\ raised = "ChatGroq" /\ last.kind = "solve"
    /\ text_area # ""

\* C9: the callback handler receives the intermediate events of a run exactly
\* when the reasoning flag is set; with the flag unset it receives nothing.
C9_EventsOnlyWhenFlagSet ==
    agent_run # None
    => st_cb[1].received = (IF show_reasoning THEN agent_run[1].events ELSE << >>)

\* C10, as stated: the interaction in which the text area holds text and the
\* user clicks an example button appends more than one user record.
C10_ExampleWithTextDuplicates ==
    (last.kind \in {"example", "rerun"} /\ AtRest /\ text_area # "" /\ llm # None)
    => Len(UserRecords(Appended)) > 1

\* C10, amended: no run appends more than one user record.  The run of a click
\* on example button i appends the one user record holding example_problems[i]
\* if it constructs its model client and nothing otherwise, also when the text
\* area holds text; the rerun it asks for appends nothing.
C10_ExampleAppendsOnce ==
    [][ LET old == Messages(session_state)
            new == Messages(session_state')
        IN  /\ Len(UserRecords(new)) <= Len(UserRecords(old)) + 1
            /\ (last'.kind = "example" /\ raised' = "experimental_rerun")
               => new = Append(old, UserRecord(example_problems[last'.example]))
            /\ (last'.kind = "example" /\ raised' # "experimental_rerun")
               => session_state' = session_state
            /\ (last'.kind = "rerun")
               => new = old ]_vars

C10_Witness ==
    /\ last.kind = "rerun" /\ AtRest /\ text_area # "" /\ llm # None
    /\ Appended = << UserRecord(example_problems[last.example]) >>

====
